---- MODULE Spec2Model ----
(***************************************************************************)
(* lk_math: the interval algebra (src/src/interval.rs) and the disjoint    *)
(* interval set built on it (src/src/interval_set.rs).                     *)
(*                                                                         *)
(* The endpoint type T is a signed integer type.  The i32 of the tests is  *)
(* scaled down to the NumValues integers MinT..MaxT around 0 (-3..2 for 6  *)
(* values).  A Range<T> is the record [start, end]; an Option is           *)
(* a sequence of length 0 (None) or 1 (Some).  Vec indices are 0-based in  *)
(* the source and are kept 0-based here; At(s, i) reads s[i].              *)
(***************************************************************************)
EXTENDS Integers, Sequences, FiniteSets, TLC

VARIABLES intervals, prev, op, arg, pure, unioned, lhs, rhs, res, floats

vars == <<intervals, prev, op, arg, pure, unioned, lhs, rhs, res, floats>>

\* The IntervalSet and the record of its last call.
setVars == <<intervals, prev, op, arg, pure, unioned>>

\* A pair of ranges and the result of the Interval method applied to it.
pairVars == <<lhs, rhs, res>>

\* Two floats, as their bit patterns, and the result of comparing their
\* OrdFloat wrappers.
floatVars == <<floats>>

\* Number of values of the scaled-down endpoint type.
NumValues == 6

MinT == 0 - (NumValues \div 2)

MaxT == MinT + NumValues - 1

T == MinT..MaxT

Range(s, e) == [start |-> s, end |-> e]

\* Every Range<T> a caller can pass, empty and reversed ones included.
Ranges == {Range(s, e) : s \in T, e \in T}

None == <<>>

Some(x) == <<x>>

inclusive_min(r) == r.start

exclusive_max(r) == r.end

min(a, b) == IF b < a THEN b ELSE a

max(a, b) == IF b < a THEN a ELSE b

\* Range::contains of the standard library: start <= value < end.
range_contains(r, v) == r.start <= v /\ v < r.end

(***************************************************************************)
(* Interval primitives.  IntervalSet calls them as x.intersection(..) and  *)
(* x.union(..); the Interval trait names them interval_intersection and    *)
(* interval_union.                                                         *)
(***************************************************************************)
\* Mutant: returns the later range's end instead of the smaller end.
interval_intersection_no_min(self, other) ==
    LET swap == inclusive_min(self) > inclusive_min(other)
        a1 == IF swap THEN exclusive_max(other) ELSE exclusive_max(self)
        b0 == IF swap THEN inclusive_min(self) ELSE inclusive_min(other)
        b1 == IF swap THEN exclusive_max(self) ELSE exclusive_max(other)
    IN  IF a1 <= b0 THEN None ELSE Some(Range(b0, b1))

\* Mutant: None only on a1 < b0, so that touching ranges give Some(x..x).
interval_intersection_touching(self, other) ==
    LET swap == inclusive_min(self) > inclusive_min(other)
        a1 == IF swap THEN exclusive_max(other) ELSE exclusive_max(self)
        b0 == IF swap THEN inclusive_min(self) ELSE inclusive_min(other)
        b1 == IF swap THEN exclusive_max(self) ELSE exclusive_max(other)
    IN  IF a1 < b0 THEN None ELSE Some(Range(b0, min(a1, b1)))

interval_intersection(self, other) ==
    LET swap == inclusive_min(self) > inclusive_min(other)
        a1 == IF swap THEN exclusive_max(other) ELSE exclusive_max(self)
        b0 == IF swap THEN inclusive_min(self) ELSE inclusive_min(other)
        b1 == IF swap THEN exclusive_max(self) ELSE exclusive_max(other)
    IN  IF a1 <= b0 THEN None ELSE Some(Range(b0, min(a1, b1)))

\* Mutant: touching ranges (a1 = b0) are not merged.
interval_union_no_touch(self, other) ==
    LET swap == inclusive_min(self) > inclusive_min(other)
        a0 == IF swap THEN inclusive_min(other) ELSE inclusive_min(self)
        a1 == IF swap THEN exclusive_max(other) ELSE exclusive_max(self)
        b0 == IF swap THEN inclusive_min(self) ELSE inclusive_min(other)
        b1 == IF swap THEN exclusive_max(self) ELSE exclusive_max(other)
    IN  IF a1 <= b0 THEN None ELSE Some(Range(a0, max(a1, b1)))

interval_union(self, other) ==
    LET swap == inclusive_min(self) > inclusive_min(other)
        a0 == IF swap THEN inclusive_min(other) ELSE inclusive_min(self)
        a1 == IF swap THEN exclusive_max(other) ELSE exclusive_max(self)
        b0 == IF swap THEN inclusive_min(self) ELSE inclusive_min(other)
        b1 == IF swap THEN exclusive_max(self) ELSE exclusive_max(other)
    IN  IF a1 < b0 THEN None ELSE Some(Range(a0, max(a1, b1)))

\* Mutant: the second comparison admits a0 = b1.
overlaps_or_equal(self, other) ==
    exclusive_max(self) > inclusive_min(other)
        /\ inclusive_min(self) <= exclusive_max(other)

overlaps(self, other) ==
    exclusive_max(self) > inclusive_min(other)
        /\ inclusive_min(self) < exclusive_max(other)

\* Mutant: ranges that only meet at an endpoint do not touch.
touches_strict(self, other) ==
    exclusive_max(self) > inclusive_min(other)
        /\ inclusive_min(self) < exclusive_max(other)

touches(self, other) ==
    exclusive_max(self) >= inclusive_min(other)
        /\ inclusive_min(self) <= exclusive_max(other)

dominates(self, other) ==
    inclusive_min(self) <= inclusive_min(other)
        /\ exclusive_max(self) >= exclusive_max(other)

(***************************************************************************)
(* Vec helpers, 0-based                                                    *)
(***************************************************************************)
At(s, i) == s[i + 1]

\* Vec::drain(i0..i1): drops the elements at indices i0 .. i1-1.
drain(s, i0, i1) == SubSeq(s, 1, i0) \o SubSeq(s, i1 + 1, Len(s))

\* Vec::remove(i)
remove(s, i) == SubSeq(s, 1, i) \o SubSeq(s, i + 2, Len(s))

\* Vec::insert(i, x)
insert(s, i, x) == SubSeq(s, 1, i) \o <<x>> \o SubSeq(s, i + 1, Len(s))

\* s[i] = x
set(s, i, x) == [s EXCEPT ![i + 1] = x]

(***************************************************************************)
(* slice::binary_search_by with the comparator |x| key(x).cmp(target).     *)
(* Both Ok(i) and Err(i) are used as i by every caller.  On a slice that   *)
(* is sorted by the key without duplicates the result is the number of     *)
(* keys below the target.  On any other slice the standard library leaves  *)
(* the result unspecified; the two loops it has shipped are modelled and   *)
(* the callers choose between them nondeterministically.                   *)
(***************************************************************************)
SearchImpls == {"halving", "bisect"}

RECURSIVE search_halving(_, _, _, _)
search_halving(keys, target, base, size) ==
    IF size > 1
    THEN LET half == size \div 2
             mid == base + half
         IN  search_halving(keys, target,
                            IF At(keys, mid) > target THEN base ELSE mid,
                            size - half)
    ELSE IF At(keys, base) = target THEN base
         ELSE IF At(keys, base) < target THEN base + 1 ELSE base

RECURSIVE search_bisect(_, _, _, _)
search_bisect(keys, target, left, right) ==
    IF left < right
    THEN LET mid == left + ((right - left) \div 2)
         IN  IF At(keys, mid) < target
             THEN search_bisect(keys, target, mid + 1, right)
             ELSE IF At(keys, mid) > target
                  THEN search_bisect(keys, target, left, mid)
                  ELSE mid
    ELSE left

\* Mutant: an exact match at i is reported as i + 1.
binary_search_by_after_match(keys, target, impl) ==
    IF Len(keys) = 0 THEN 0
    ELSE LET i == IF impl = "halving"
                  THEN search_halving(keys, target, 0, Len(keys))
                  ELSE search_bisect(keys, target, 0, Len(keys))
         IN  IF i < Len(keys) /\ At(keys, i) = target THEN i + 1 ELSE i

binary_search_by(keys, target, impl) ==
    IF Len(keys) = 0 THEN 0
    ELSE IF impl = "halving" THEN search_halving(keys, target, 0, Len(keys))
         ELSE search_bisect(keys, target, 0, Len(keys))

mins(s) == [i \in 1..Len(s) |-> inclusive_min(s[i])]

maxs(s) == [i \in 1..Len(s) |-> exclusive_max(s[i])]

(***************************************************************************)
(* IntervalSet mutations as functions of the stored Vec                    *)
(***************************************************************************)
RECURSIVE filter_map_intersection(_, _)
filter_map_intersection(s, interval) ==
    IF s = <<>> THEN <<>>
    ELSE interval_intersection(Head(s), interval)
             \o filter_map_intersection(Tail(s), interval)

intersect(s, interval) == filter_map_intersection(s, interval)

RECURSIVE filter_intersecting(_, _)
filter_intersecting(s, interval) ==
    IF s = <<>> THEN <<>>
    ELSE (IF interval_intersection(Head(s), interval) # None
          THEN <<Head(s)>> ELSE <<>>)
             \o filter_intersecting(Tail(s), interval)

retain_intersecting(s, interval) == filter_intersecting(s, interval)

\* Mutant: after a merge with the left neighbour the right neighbour is not
\* looked at.
union_merge_no_three(d, index, interval) ==
    LET pre == IF index > 0 THEN interval_union(At(d, index - 1), interval)
               ELSE None
    IN  IF pre # None
        THEN set(d, index - 1, pre[1])
        ELSE LET post == IF index < Len(d)
                         THEN interval_union(At(d, index), interval)
                         ELSE None
             IN  IF post # None
                 THEN set(d, index, post[1])
                 ELSE insert(d, index, interval)

\* Mutant: without a merge to the left the range is inserted, the right
\* neighbour is never merged alone.
union_merge_no_post(d, index, interval) ==
    LET pre == IF index > 0 THEN interval_union(At(d, index - 1), interval)
               ELSE None
    IN  IF pre # None
        THEN LET merged == pre[1]
                 all_three == IF index < Len(d)
                              THEN interval_union(At(d, index), merged)
                              ELSE None
             IN  IF all_three # None
                 THEN set(remove(d, index), index - 1, all_three[1])
                 ELSE set(d, index - 1, merged)
        ELSE insert(d, index, interval)

\* The merge part of union, after the drain: d is the drained Vec.
union_merge(d, index, interval) ==
    LET pre == IF index > 0 THEN interval_union(At(d, index - 1), interval)
               ELSE None
    IN  IF pre # None
        THEN LET merged == pre[1]
                 all_three == IF index < Len(d)
                              THEN interval_union(At(d, index), merged)
                              ELSE None
             IN  IF all_three # None
                 THEN set(remove(d, index), index - 1, all_three[1])
                 ELSE set(d, index - 1, merged)
        ELSE LET post == IF index < Len(d)
                         THEN interval_union(At(d, index), interval)
                         ELSE None
             IN  IF post # None
                 THEN set(d, index, post[1])
                 ELSE insert(d, index, interval)

\* The two binary searches of union: by start for the start of the argument,
\* by end for its end.
union_index0(s, interval, impl) ==
    binary_search_by(mins(s), inclusive_min(interval), impl)

\* Mutant: the end of the argument is searched among the starts.
union_index1_by_min(s, interval, impl) ==
    binary_search_by(mins(s), exclusive_max(interval), impl)

union_index1(s, interval, impl) ==
    binary_search_by(maxs(s), exclusive_max(interval), impl)

\* Mutant: the early return is taken on index0 >= index1.
union_already_included_eq(s, interval, impl) ==
    /\ inclusive_min(interval) < exclusive_max(interval)
    /\ s # <<>>
    /\ union_index0(s, interval, impl) >= union_index1(s, interval, impl)

\* union takes the early return "the interval is already included".
union_already_included(s, interval, impl) ==
    /\ inclusive_min(interval) < exclusive_max(interval)
    /\ s # <<>>
    /\ union_index0(s, interval, impl) > union_index1(s, interval, impl)

\* The 0-based indices that union removes with drain(index0..index1); empty
\* when union returns before the drain or skips it.
union_drained(s, interval, impl) ==
    LET index0 == union_index0(s, interval, impl)
        index1 == union_index1(s, interval, impl)
    IN  IF /\ inclusive_min(interval) < exclusive_max(interval)
           /\ s # <<>>
           /\ index0 < index1
        THEN index0..(index1 - 1)
        ELSE {}

\* Mutant: returns early on index0 >= index1 instead of index0 > index1.
union_early_return(s, interval, impl) ==
    IF inclusive_min(interval) >= exclusive_max(interval) THEN s
    ELSE IF s = <<>> THEN <<interval>>
    ELSE LET index0 == binary_search_by(mins(s), inclusive_min(interval), impl)
             index1 == binary_search_by(maxs(s), exclusive_max(interval), impl)
         IN  IF index0 >= index1 THEN s
             ELSE union_merge(drain(s, index0, index1), index0, interval)

\* Mutant: the guard against a degenerate argument is missing.
union_no_guard(s, interval, impl) ==
    IF s = <<>> THEN <<interval>>
    ELSE LET index0 == binary_search_by(mins(s), inclusive_min(interval), impl)
             index1 == binary_search_by(maxs(s), exclusive_max(interval), impl)
         IN  IF index0 > index1 THEN s
             ELSE union_merge(IF index0 < index1 THEN drain(s, index0, index1)
                              ELSE s,
                              index0, interval)

union(s, interval, impl) ==
    IF inclusive_min(interval) >= exclusive_max(interval) THEN s
    ELSE IF s = <<>> THEN <<interval>>
    ELSE LET index0 == union_index0(s, interval, impl)
             index1 == union_index1(s, interval, impl)
         IN  IF index0 > index1 THEN s
             ELSE union_merge(IF index0 < index1 THEN drain(s, index0, index1)
                              ELSE s,
                              index0, interval)

(***************************************************************************)
(* Index checks of union.  Each operator follows the path union takes and  *)
(* is TRUE iff every Vec index, drain, remove and insert on that path is   *)
(* within the bounds of the Vec at that point (no panic).                  *)
(***************************************************************************)
\* self.intervals[i], remove(i): i < len
index_ok(s, i) == 0 <= i /\ i < Len(s)

\* drain(i0..i1): i0 <= i1 <= len
drain_ok(s, i0, i1) == 0 <= i0 /\ i0 <= i1 /\ i1 <= Len(s)

\* insert(i, x): i <= len
insert_ok(s, i) == 0 <= i /\ i <= Len(s)

\* The right-neighbour and insert part (lines 108-116).
union_post_in_bounds(d, index, interval) ==
    IF index < Len(d)
    THEN /\ index_ok(d, index)
         /\ (interval_union(At(d, index), interval) = None
                => insert_ok(d, index))
    ELSE insert_ok(d, index)

\* Mutant: the left neighbour is read without the index > 0 guard.
union_merge_in_bounds_no_guard(d, index, interval) ==
    /\ index_ok(d, index - 1)
    /\ LET pre == interval_union(At(d, index - 1), interval)
       IN  IF pre # None
           THEN IF index < Len(d)
                THEN /\ index_ok(d, index)
                     /\ IF interval_union(At(d, index), pre[1]) # None
                        THEN index_ok(remove(d, index), index - 1)
                        ELSE index_ok(d, index - 1)
                ELSE index_ok(d, index - 1)
           ELSE union_post_in_bounds(d, index, interval)

\* The merge part (lines 90-116) on the drained Vec d.
union_merge_in_bounds(d, index, interval) ==
    IF index > 0
    THEN /\ index_ok(d, index - 1)
         /\ LET pre == interval_union(At(d, index - 1), interval)
            IN  IF pre # None
                THEN IF index < Len(d)
                     THEN /\ index_ok(d, index)
                          /\ IF interval_union(At(d, index), pre[1]) # None
                             THEN index_ok(remove(d, index), index - 1)
                             ELSE index_ok(d, index - 1)
                     ELSE index_ok(d, index - 1)
                ELSE union_post_in_bounds(d, index, interval)
    ELSE union_post_in_bounds(d, index, interval)

union_in_bounds(s, interval, impl) ==
    IF inclusive_min(interval) >= exclusive_max(interval) THEN TRUE
    ELSE IF s = <<>> THEN TRUE
    ELSE LET index0 == binary_search_by(mins(s), inclusive_min(interval), impl)
             index1 == binary_search_by(maxs(s), exclusive_max(interval), impl)
         IN  IF index0 > index1 THEN TRUE
             ELSE IF index0 < index1
                  THEN /\ drain_ok(s, index0, index1)
                       /\ union_merge_in_bounds(drain(s, index0, index1),
                                                index0, interval)
                  ELSE union_merge_in_bounds(s, index0, interval)

(***************************************************************************)
(* IntervalSet queries                                                     *)
(***************************************************************************)
containing_interval(s, value, impl) ==
    LET index0 == binary_search_by(maxs(s), value, impl)
    IN  IF index0 < Len(s)
        THEN IF range_contains(At(s, index0), value)
             THEN Some(At(s, index0))
             ELSE None
        ELSE None

contains(s, value, impl) == containing_interval(s, value, impl) # None

(***************************************************************************)
(* UniversalInterval for the endpoint type: the extreme values and the     *)
(* tests for them (for i32: i32::MIN and i32::MAX).                        *)
(***************************************************************************)
INFINUM == MinT

SUPREMUM == MaxT

is_infinum(x) == x = INFINUM

is_supremum(x) == x = SUPREMUM

universal_interval == Range(INFINUM, SUPREMUM)

\* The gaps between consecutive stored intervals (the loop over 0..count-1).
inner_gaps(s) ==
    [i \in 1..(Len(s) - 1) |-> Range(exclusive_max(s[i]), inclusive_min(s[i + 1]))]

\* Mutant: the negation of an empty set is empty.
negation_empty_of_empty(s) ==
    LET count == Len(s)
    IN  IF count > 0
        THEN (IF ~is_infinum(inclusive_min(At(s, 0)))
              THEN <<Range(INFINUM, inclusive_min(At(s, 0)))>>
              ELSE <<>>)
             \o inner_gaps(s)
             \o (IF ~is_supremum(exclusive_max(At(s, count - 1)))
                 THEN <<Range(exclusive_max(At(s, count - 1)), SUPREMUM)>>
                 ELSE <<>>)
        ELSE <<>>

\* Mutant: the trailing gap is pushed without the is_supremum test.
negation_always_trailing(s) ==
    LET count == Len(s)
    IN  IF count > 0
        THEN (IF ~is_infinum(inclusive_min(At(s, 0)))
              THEN <<Range(INFINUM, inclusive_min(At(s, 0)))>>
              ELSE <<>>)
             \o inner_gaps(s)
             \o <<Range(exclusive_max(At(s, count - 1)), SUPREMUM)>>
        ELSE <<universal_interval>>

\* Mutant: the loop over the inner gaps is missing.
negation_no_inner_gaps(s) ==
    LET count == Len(s)
    IN  IF count > 0
        THEN (IF ~is_infinum(inclusive_min(At(s, 0)))
              THEN <<Range(INFINUM, inclusive_min(At(s, 0)))>>
              ELSE <<>>)
             \o (IF ~is_supremum(exclusive_max(At(s, count - 1)))
                 THEN <<Range(exclusive_max(At(s, count - 1)), SUPREMUM)>>
                 ELSE <<>>)
        ELSE <<universal_interval>>

negation(s) ==
    LET count == Len(s)
    IN  IF count > 0
        THEN (IF ~is_infinum(inclusive_min(At(s, 0)))
              THEN <<Range(INFINUM, inclusive_min(At(s, 0)))>>
              ELSE <<>>)
             \o inner_gaps(s)
             \o (IF ~is_supremum(exclusive_max(At(s, count - 1)))
                 THEN <<Range(exclusive_max(At(s, count - 1)), SUPREMUM)>>
                 ELSE <<>>)
        ELSE <<universal_interval>>

(***************************************************************************)
(* measure, bounds, negation_within_bounds.                                *)
(*                                                                         *)
(* T's arithmetic has T's width: a difference or sum outside MinT..MaxT    *)
(* overflows.  A build with overflow checks panics there; a build without  *)
(* them wraps around, which wrap gives.  measure_fold follows the iterator *)
(* map(end - start).sum() from 0, left to right, and returns the wrapped   *)
(* value together with whether any step overflowed.                        *)
(***************************************************************************)
wrap(x) == ((x - MinT) % NumValues) + MinT

RECURSIVE measure_fold(_, _, _)
measure_fold(s, i, acc) ==
    IF i >= Len(s) THEN acc
    ELSE LET d == exclusive_max(At(s, i)) - inclusive_min(At(s, i))
             sum == acc.value + wrap(d)
         IN  measure_fold(s, i + 1,
                          [value |-> wrap(sum),
                           overflow |-> acc.overflow \/ d \notin T \/ sum \notin T])

\* Mutant: the length of each interval is taken as end - start + 1.
measure_inclusive(s) ==
    wrap(measure_fold(s, 0, [value |-> 0, overflow |-> FALSE]).value + Len(s))

\* The value measure returns (wrapped, if a step overflowed).
measure(s) == measure_fold(s, 0, [value |-> 0, overflow |-> FALSE]).value

\* Some difference or partial sum of measure overflows T.
measure_overflows(s) ==
    measure_fold(s, 0, [value |-> 0, overflow |-> FALSE]).overflow

(***************************************************************************)
(* IntervalExt.  The two differences and their product are computed in T:  *)
(* dominates_product gives the wrapped product and whether one of the      *)
(* three operations overflowed.  With overflow checks the call panics on   *)
(* overflow (None below); without them it compares the wrapped product.    *)
(***************************************************************************)
OverflowChecks == BOOLEAN

zero == 0

dominates_product(self, other) ==
    LET d0 == inclusive_min(other) - inclusive_min(self)
        d1 == exclusive_max(other) - exclusive_max(self)
        p  == wrap(d0) * wrap(d1)
    IN  [value |-> wrap(p),
         overflow |-> d0 \notin T \/ d1 \notin T \/ p \notin T]

dominates_or_is_dominated_by(self, other, checks) ==
    LET product == dominates_product(self, other)
    IN  IF checks /\ product.overflow
        THEN None
        ELSE Some(product.value <= zero)

\* Mutant: the end of the first interval is taken as the upper bound.
bounds_first_end(s) ==
    LET count == Len(s)
    IN  IF count > 0
        THEN Some(Range(inclusive_min(At(s, 0)), exclusive_max(At(s, 0))))
        ELSE None

bounds(s) ==
    LET count == Len(s)
    IN  IF count > 0
        THEN Some(Range(inclusive_min(At(s, 0)), exclusive_max(At(s, count - 1))))
        ELSE None

\* Mutant: the gap before the first interval is pushed as in negation.
negation_within_bounds_leading(s) ==
    LET count == Len(s)
    IN  IF count > 0
        THEN (IF ~is_infinum(inclusive_min(At(s, 0)))
              THEN <<Range(INFINUM, inclusive_min(At(s, 0)))>>
              ELSE <<>>)
             \o inner_gaps(s)
        ELSE <<>>

negation_within_bounds(s) ==
    LET count == Len(s)
    IN  IF count > 0 THEN inner_gaps(s) ELSE <<>>

\* Index checks of the queries: TRUE iff every Vec index they execute is
\* within bounds.  containing_interval reads through get(), which returns
\* None past the end.
gaps_in_bounds(s) ==
    \A i \in 0..(Len(s) - 2) : index_ok(s, i) /\ index_ok(s, i + 1)

bounds_in_bounds(s) ==
    Len(s) > 0 => index_ok(s, 0) /\ index_ok(s, Len(s) - 1)

negation_in_bounds(s) ==
    Len(s) > 0 => index_ok(s, 0) /\ gaps_in_bounds(s) /\ index_ok(s, Len(s) - 1)

negation_within_bounds_in_bounds(s) == Len(s) > 0 => gaps_in_bounds(s)

(***************************************************************************)
(* OrdF32 / OrdF64.  A float is its to_bits() pattern: one sign bit, then  *)
(* ExpBits exponent bits, then MantBits mantissa bits (f32: 8 and 23,      *)
(* f64: 11 and 52; scaled down here).  The exponent of all ones is an      *)
(* infinity (mantissa 0) or a NaN; exponent 0 is zero or a subnormal.      *)
(* value gives the number a pattern stands for, multiplied by a fixed      *)
(* power of two so that it is an integer; lt is the float comparison <.    *)
(***************************************************************************)
ExpBits == 2

MantBits == 1

FloatWidth == 1 + ExpBits + MantBits

Floats == 0..(2^FloatWidth - 1)

sign(f) == f \div 2^(ExpBits + MantBits)

exponent(f) == (f \div 2^MantBits) % 2^ExpBits

mantissa(f) == f % 2^MantBits

is_nan(f) == exponent(f) = 2^ExpBits - 1 /\ mantissa(f) # 0

is_finite(f) == exponent(f) < 2^ExpBits - 1

magnitude(f) ==
    IF exponent(f) = 0 THEN mantissa(f)
    ELSE (2^MantBits + mantissa(f)) * 2^(exponent(f) - 1)

value(f) == IF sign(f) = 1 THEN 0 - magnitude(f) ELSE magnitude(f)

lt(x, y) == ~is_nan(x) /\ ~is_nan(y) /\ value(x) < value(y)

NEG_INFINITY == 2^(ExpBits + MantBits) + (2^ExpBits - 1) * 2^MantBits

\* self.0.to_bits() as i32: the pattern read as a signed integer.
bits(f) == IF f >= 2^(FloatWidth - 1) THEN f - 2^FloatWidth ELSE f

eq(self, other) == bits(self) = bits(other)

cmp(self, other) ==
    IF bits(self) < bits(other) THEN "Less"
    ELSE IF bits(self) = bits(other) THEN "Equal"
    ELSE "Greater"

\* OrdFloat(x)..OrdFloat(y) as the interval code sees it: every comparison of
\* endpoints goes through eq and cmp, that is through bits.
OrdFloatRange(x, y) == Range(bits(x), bits(y))

(***************************************************************************)
(* State machine: one IntervalSet under its three public mutations.        *)
(* prev, op and arg record the last call; unioned is the set of points of  *)
(* the ranges passed to union, kept while pure (no other mutation yet).    *)
(***************************************************************************)
points(r) == {v \in T : range_contains(r, v)}

Init ==
    /\ intervals = <<>>
    /\ prev = <<>>
    /\ op = "new"
    /\ arg = Range(0, 0)
    /\ pure = TRUE
    /\ unioned = {}
    /\ lhs = Range(0, 0)
    /\ rhs = Range(0, 0)
    /\ res = [done |-> FALSE]
    /\ floats = [x |-> 0, y |-> 0, cmp |-> None]

Union(r) ==
    /\ \E impl \in SearchImpls : intervals' = union(intervals, r, impl)
    /\ prev' = intervals
    /\ op' = "union"
    /\ arg' = r
    /\ pure' = pure
    /\ unioned' = IF pure THEN unioned \union points(r) ELSE {}
    /\ UNCHANGED <<pairVars, floatVars>>

Intersect(r) ==
    /\ intervals' = intersect(intervals, r)
    /\ prev' = intervals
    /\ op' = "intersect"
    /\ arg' = r
    /\ pure' = FALSE
    /\ unioned' = {}
    /\ UNCHANGED <<pairVars, floatVars>>

RetainIntersecting(r) ==
    /\ intervals' = retain_intersecting(intervals, r)
    /\ prev' = intervals
    /\ op' = "retain_intersecting"
    /\ arg' = r
    /\ pure' = FALSE
    /\ unioned' = {}
    /\ UNCHANGED <<pairVars, floatVars>>

Next ==
    \E r \in Ranges :
        \/ Union(r)
        \/ Intersect(r)
        \/ RetainIntersecting(r)

Spec == Init /\ [][Next]_vars

(***************************************************************************)
(* The Interval methods on a pair of ranges: the pair is any two ranges,   *)
(* empty and reversed ones included, and one method is applied to it, in   *)
(* both argument orders.                                                   *)
(***************************************************************************)
InitInterval ==
    /\ intervals = <<>>
    /\ prev = <<>>
    /\ op = "new"
    /\ arg = Range(0, 0)
    /\ pure = TRUE
    /\ unioned = {}
    /\ lhs \in Ranges
    /\ rhs \in Ranges
    /\ res = [done |-> FALSE]
    /\ floats = [x |-> 0, y |-> 0, cmp |-> None]

Applied(fn, ab, ba) ==
    /\ ~res.done
    /\ res' = [done |-> TRUE, fn |-> fn, ab |-> ab, ba |-> ba]
    /\ UNCHANGED <<lhs, rhs>>
    /\ UNCHANGED <<setVars, floatVars>>

IntervalIntersection ==
    Applied("interval_intersection",
            interval_intersection(lhs, rhs), interval_intersection(rhs, lhs))

IntervalUnion ==
    Applied("interval_union", interval_union(lhs, rhs), interval_union(rhs, lhs))

Overlaps == Applied("overlaps", overlaps(lhs, rhs), overlaps(rhs, lhs))

Touches == Applied("touches", touches(lhs, rhs), touches(rhs, lhs))

Dominates == Applied("dominates", dominates(lhs, rhs), dominates(rhs, lhs))

DominatesOrIsDominatedBy ==
    \E checks \in OverflowChecks :
        Applied("dominates_or_is_dominated_by",
                dominates_or_is_dominated_by(lhs, rhs, checks),
                dominates_or_is_dominated_by(rhs, lhs, checks))

NextInterval ==
    \/ IntervalIntersection
    \/ IntervalUnion
    \/ Overlaps
    \/ Touches
    \/ Dominates
    \/ DominatesOrIsDominatedBy

SpecInterval == InitInterval /\ [][NextInterval]_vars

(***************************************************************************)
(* The OrdFloat wrappers of any two floats: they are compared, and the     *)
(* range from the one to the other is added to a new IntervalSet.          *)
(***************************************************************************)
InitOrdFloat ==
    /\ intervals = <<>>
    /\ prev = <<>>
    /\ op = "new"
    /\ arg = Range(0, 0)
    /\ pure = TRUE
    /\ unioned = {}
    /\ lhs = Range(0, 0)
    /\ rhs = Range(0, 0)
    /\ res = [done |-> FALSE]
    /\ floats \in [x : Floats, y : Floats, cmp : {None}]

Cmp ==
    /\ floats.cmp = None
    /\ floats' = [floats EXCEPT !.cmp = Some(cmp(floats.x, floats.y))]
    /\ UNCHANGED <<setVars, pairVars>>

UnionOrdFloat ==
    /\ op = "new"
    /\ \E impl \in SearchImpls :
           intervals' = union(intervals, OrdFloatRange(floats.x, floats.y), impl)
    /\ prev' = intervals
    /\ op' = "union"
    /\ arg' = OrdFloatRange(floats.x, floats.y)
    /\ pure' = FALSE
    /\ unioned' = {}
    /\ UNCHANGED <<pairVars, floatVars>>

NextOrdFloat ==
    \/ Cmp
    \/ UnionOrdFloat

SpecOrdFloat == InitOrdFloat /\ [][NextOrdFloat]_vars

(***************************************************************************)
(* Properties                                                              *)
(***************************************************************************)
\* The structural invariant of section 3 of the specification.
SortedByStart(s) == \A i \in 1..(Len(s) - 1) : s[i].start < s[i + 1].start

StrictGaps(s) == \A i \in 1..(Len(s) - 1) : s[i].end < s[i + 1].start

NonDegenerate(s) == \A i \in 1..Len(s) : s[i].start < s[i].end

Valid(s) == SortedByStart(s) /\ StrictGaps(s) /\ NonDegenerate(s)

Degenerate(r) == r.start >= r.end

\* C1: after any sequence of union, intersect and retain_intersecting calls
\* the stored sequence is sorted ascending by start and consecutive
\* intervals are separated by a strict gap: i.end < (i+1).start.
C1_SortedStrictGaps == SortedByStart(intervals) /\ StrictGaps(intervals)

\* C1 witness: at least two intervals are stored after a union that followed
\* an intersect or retain_intersecting call.
C1_Witness == Len(intervals) >= 2 /\ op = "union" /\ ~pure

\* C2: after any sequence of union, intersect and retain_intersecting calls,
\* with empty or reversed arguments included, every stored interval has
\* start < end.
C2_NoDegenerateStored == NonDegenerate(intervals)

\* C2 on the sets it holds for: intersect with a non-degenerate filter never
\* stores a degenerate interval when none was stored before.
C2_NonDegenerateFilter ==
    (op = "intersect" /\ ~Degenerate(arg) /\ NonDegenerate(prev))
        => NonDegenerate(intervals)

\* C3: after union(new) with new.start < new.end, contains(v) is true iff it
\* was true before the call or new.start <= v < new.end, for every v.
C3_UnionAddsExactlyNew ==
    (op = "union" /\ ~Degenerate(arg)) =>
        \A v \in T, impl \in SearchImpls :
            contains(intervals, v, impl)
                <=> (contains(prev, v, impl) \/ range_contains(arg, v))

\* C3 witness: a union that bridged two stored intervals, so that points
\* were added and the stored intervals were merged.
C3_Witness ==
    /\ op = "union"
    /\ ~Degenerate(arg)
    /\ Len(prev) >= 2
    /\ Len(intervals) < Len(prev)
    /\ \E v \in T : range_contains(arg, v) /\ ~contains(prev, v, "bisect")

\* The ascending sequence of the elements of a finite set of integers.
RECURSIVE Ascending(_)
Ascending(S) ==
    IF S = {} THEN <<>>
    ELSE LET m == CHOOSE x \in S : \A y \in S : x <= y
         IN  <<m>> \o Ascending(S \ {m})

\* The maximal runs of consecutive points of P, ascending, as half-open
\* ranges: the canonical decomposition of a union of ranges of integers,
\* in which overlapping and touching ranges fall into one run.
Runs(P) ==
    LET firsts == Ascending({v \in P : (v - 1) \notin P})
        stop(v) == CHOOSE e \in (v + 1)..(MaxT + 1) :
                       /\ e \notin P
                       /\ \A w \in v..(e - 1) : w \in P
    IN  [i \in 1..Len(firsts) |-> Range(firsts[i], stop(firsts[i]))]

\* C4: after any sequence of union calls on an empty set the stored sequence
\* is the canonical decomposition of the inserted non-degenerate ranges.
C4_CanonicalDecomposition == pure => intervals = Runs(unioned)

\* C4 witness: a union with a range that exactly touches a stored interval
\* (stored.end = new.start) and was coalesced with it.
C4_Witness ==
    /\ pure
    /\ op = "union"
    /\ ~Degenerate(arg)
    /\ \E i \in 1..Len(prev) : prev[i].end = arg.start
    /\ Len(intervals) <= Len(prev)
    /\ intervals # prev

\* C5: union is commutative in the final state: from a set S reached by
\* unions alone (prev),
\* union(a) (the call just made, a = arg) followed by union(b) stores the
\* same sequence as union(b) followed by union(a), for every range b.
C5_UnionCommutes ==
    (pure /\ op = "union") =>
        \A b \in Ranges, impl \in SearchImpls :
            union(intervals, b, impl) = union(union(prev, b, impl), arg, impl)

\* C5 witness: a non-empty set S, a call union(a) that changed it, and a
\* range b overlapping a whose union changes the result again.
C5_Witness ==
    /\ pure
    /\ op = "union"
    /\ prev # <<>>
    /\ intervals # prev
    /\ \E b \in Ranges :
           /\ interval_intersection(arg, b) # None
           /\ union(intervals, b, "bisect") # intervals
           /\ union(prev, b, "bisect") # prev

\* C6, first part: containing_interval(v) is Some(x) iff a stored x has
\* x.start <= v < x.end, and is then that interval; contains(v) iff Some.
C6_ContainingInterval ==
    \A v \in T, impl \in SearchImpls :
        LET c == containing_interval(intervals, v, impl)
            holders == {i \in 1..Len(intervals) : range_contains(intervals[i], v)}
        IN  /\ (c # None) <=> (holders # {})
            /\ c # None => \A i \in holders : c[1] = intervals[i]
            /\ contains(intervals, v, impl) <=> (c # None)

\* C6, second part: for every stored x, contains(x.start) and
\* ~contains(x.end).
C6_StoredBoundaries ==
    \A i \in 1..Len(intervals), impl \in SearchImpls :
        /\ contains(intervals, intervals[i].start, impl)
        /\ ~contains(intervals, intervals[i].end, impl)

\* C6: both parts, for every set reachable by the public mutations.
C6_ContainsIffStored == C6_ContainingInterval /\ C6_StoredBoundaries

\* C6 on valid sets: the boundary part holds whenever no degenerate
\* interval is stored.
C6_OnValidSets == Valid(intervals) => C6_ContainsIffStored

\* C7: full negation is an involution on every valid disjoint set.
C7_NegationInvolution ==
    Valid(intervals) => negation(negation(intervals)) = intervals

\* C7 witness: a valid set of at least two intervals whose first interval
\* starts at the infimum and whose last interval ends at the supremum.
C7_Witness ==
    /\ Valid(intervals)
    /\ Len(intervals) >= 2
    /\ is_infinum(intervals[1].start)
    /\ is_supremum(intervals[Len(intervals)].end)

C9_Intersect ==
    op = "intersect" =>
        /\ LET each == [i \in 1..Len(prev) |-> interval_intersection(prev[i], arg)]
               kept == SelectSeq(each, LAMBDA o : o # None)
           IN  intervals = [i \in 1..Len(kept) |-> kept[i][1]]
        /\ \A v \in T, impl \in SearchImpls :
               contains(intervals, v, impl)
                   <=> (contains(prev, v, impl) /\ range_contains(arg, v))

\* C9 witness: an intersect that dropped one stored interval and shrank
\* another.
C9_Witness ==
    /\ op = "intersect"
    /\ intervals # <<>>
    /\ Len(intervals) < Len(prev)
    /\ \E i \in 1..Len(intervals) : \A j \in 1..Len(prev) : intervals[i] # prev[j]

\* Two ranges share at least one point.
SharesPoint(a, b) == \E v \in T : range_contains(a, v) /\ range_contains(b, v)

\* C10: retain_intersecting(filter) keeps, unmodified and in order, exactly
\* the stored intervals that share at least one point with filter.
C10_RetainIntersecting ==
    op = "retain_intersecting" =>
        intervals = SelectSeq(prev, LAMBDA x : SharesPoint(x, arg))

\* C10 on valid sets with a non-degenerate filter.
C10_NonDegenerateFilter ==
    (op = "retain_intersecting" /\ ~Degenerate(arg) /\ Valid(prev)) =>
        intervals = SelectSeq(prev, LAMBDA x : SharesPoint(x, arg))

\* C11: union(r) with a degenerate argument (r.start >= r.end) leaves the
\* stored sequence exactly unchanged, in any state.
C11_DegenerateUnionNoOp ==
    (op = "union" /\ Degenerate(arg)) => intervals = prev

\* C11 witness: a union with a reversed range on a set of two intervals.
C11_Witness ==
    /\ op = "union"
    /\ arg.start > arg.end
    /\ Len(prev) >= 2

\* C12: no operation raises: every index, remove, insert and drain executed
\* by the union just called (on any reachable set, with any argument, empty
\* and reversed ones included) and by bounds, negation and
\* negation_within_bounds on any reachable set is within the bounds of the
\* Vec.
C12_IndicesInBounds ==
    /\ op = "union" => \A impl \in SearchImpls : union_in_bounds(prev, arg, impl)
    /\ bounds_in_bounds(intervals)
    /\ negation_in_bounds(intervals)
    /\ negation_within_bounds_in_bounds(intervals)

\* C12 witness: a union that drained an interval and merged both
\* neighbours into one, after an intersect or retain_intersecting call.
C12_Witness ==
    /\ op = "union"
    /\ ~pure
    /\ Len(prev) >= 3
    /\ Len(intervals) = Len(prev) - 2

\* The sum of (end - start) over the stored intervals in the integers.
RECURSIVE SumOfLengths(_)
SumOfLengths(s) ==
    IF s = <<>> THEN 0
    ELSE (Head(s).end - Head(s).start) + SumOfLengths(Tail(s))

C14_MeasureNonNegative ==
    /\ ~measure_overflows(intervals)
    /\ measure(intervals) >= 0
    /\ ~measure_overflows(negation(intervals))
    /\ measure(negation(intervals)) >= 0

\* C14 where it holds: on a valid set whose measure does not overflow,
\* measure() is >= 0.
C14_WithoutOverflow ==
    (Valid(intervals) /\ ~measure_overflows(intervals))
        => measure(intervals) >= 0

\* C15: bounds() is None iff the set is empty, otherwise
\* Some([first.start, last.end)); for a valid set every contained v lies
\* in the bounds and bounds.start is contained.
C15_Bounds ==
    /\ bounds(intervals) = None <=> intervals = <<>>
    /\ intervals # <<>> =>
           bounds(intervals)
               = Some(Range(intervals[1].start, intervals[Len(intervals)].end))
    /\ (Valid(intervals) /\ intervals # <<>>) =>
           LET b == bounds(intervals)[1]
           IN  \A impl \in SearchImpls :
                   /\ \A v \in T : contains(intervals, v, impl)
                                       => range_contains(b, v)
                   /\ contains(intervals, b.start, impl)

\* C15 witness: a valid set of at least two intervals.
C15_Witness == Valid(intervals) /\ Len(intervals) >= 2 /\ op = "union"

\* C16: for a valid set of n intervals negation_within_bounds() is the n-1
\* gaps [intervals[i].end, intervals[i+1].start) (none when n <= 1); it
\* contains exactly the values within bounds() that the set does not
\* contain.
C16_NegationWithinBounds ==
    Valid(intervals) =>
        LET n == Len(intervals)
            gaps == negation_within_bounds(intervals)
        IN  /\ Len(gaps) = (IF n <= 1 THEN 0 ELSE n - 1)
            /\ \A i \in 1..Len(gaps) :
                   gaps[i] = Range(intervals[i].end, intervals[i + 1].start)
            /\ \A v \in T, impl \in SearchImpls :
                   contains(gaps, v, impl)
                       <=> /\ intervals # <<>>
                           /\ intervals[1].start <= v
                           /\ v < intervals[n].end
                           /\ ~contains(intervals, v, impl)

\* C16 witness: a valid set of three intervals away from both extremes.
C16_Witness ==
    /\ Valid(intervals)
    /\ Len(intervals) >= 3 \/ (Len(intervals) = 2 /\ op = "intersect")
    /\ ~is_infinum(intervals[1].start)
    /\ ~is_supremum(intervals[Len(intervals)].end)

\* C17: a newly created set stores nothing: measure() is 0, bounds() is
\* None, negation_within_bounds() is empty, contains(v) is false for every
\* v, and negation() is the single interval [INFINUM, SUPREMUM).
C17_NewSet ==
    op = "new" =>
        /\ intervals = <<>>
        /\ measure(intervals) = 0
        /\ ~measure_overflows(intervals)
        /\ bounds(intervals) = None
        /\ negation_within_bounds(intervals) = <<>>
        /\ \A v \in T, impl \in SearchImpls : ~contains(intervals, v, impl)
        /\ negation(intervals) = <<Range(MinT, MaxT)>>

\* C17 witness: the set as IntervalSet::new() returns it.
C17_Witness == op = "new" /\ prev = <<>> /\ pure

\* The larger of the two starts and the smaller of the two ends.
LaterStart(a, b) == IF a.start >= b.start THEN a.start ELSE b.start

EarlierEnd(a, b) == IF a.end <= b.end THEN a.end ELSE b.end

EarlierStart(a, b) == IF a.start <= b.start THEN a.start ELSE b.start

LaterEnd(a, b) == IF a.end >= b.end THEN a.end ELSE b.end

\* C18: for non-degenerate a and b, interval_intersection(a, b) is None iff
\* a and b share no point (touching ranges included), and otherwise is
\* Some([max(a.start, b.start), min(a.end, b.end))), whose points are
\* exactly the points lying in both.
C18_IntervalIntersection ==
    (/\ res.done
     /\ res.fn = "interval_intersection"
     /\ ~Degenerate(lhs)
     /\ ~Degenerate(rhs)) =>
        /\ res.ab = None <=> ~SharesPoint(lhs, rhs)
        /\ res.ab # None =>
               /\ res.ab = Some(Range(LaterStart(lhs, rhs), EarlierEnd(lhs, rhs)))
               /\ \A v \in T :
                      range_contains(res.ab[1], v)
                          <=> (range_contains(lhs, v) /\ range_contains(rhs, v))

\* C18 witness: two non-degenerate ranges that exactly touch, with None
\* returned.
C18_Witness ==
    /\ res.done
    /\ res.fn = "interval_intersection"
    /\ ~Degenerate(lhs)
    /\ ~Degenerate(rhs)
    /\ lhs.end = rhs.start
    /\ res.ab = None

\* C19: for non-degenerate a and b, interval_union(a, b) is None iff the
\* earlier one ends strictly before the later one starts, and otherwise
\* (overlap or exact touch) is Some([min(a.start, b.start),
\* max(a.end, b.end))), whose points are exactly the points lying in a or
\* in b.
C19_IntervalUnion ==
    (/\ res.done
     /\ res.fn = "interval_union"
     /\ ~Degenerate(lhs)
     /\ ~Degenerate(rhs)) =>
        /\ res.ab = None <=> (lhs.end < rhs.start \/ rhs.end < lhs.start)
        /\ res.ab # None =>
               /\ res.ab = Some(Range(EarlierStart(lhs, rhs), LaterEnd(lhs, rhs)))
               /\ \A v \in T :
                      range_contains(res.ab[1], v)
                          <=> (range_contains(lhs, v) \/ range_contains(rhs, v))

\* C19 witness: two non-degenerate ranges that exactly touch, the later
\* one passed first, merged into one.
C19_Witness ==
    /\ res.done
    /\ res.fn = "interval_union"
    /\ ~Degenerate(lhs)
    /\ ~Degenerate(rhs)
    /\ rhs.end = lhs.start
    /\ res.ab = Some(Range(rhs.start, lhs.end))

\* C20: overlaps and touches are symmetric: a.overlaps(b) = b.overlaps(a)
\* and a.touches(b) = b.touches(a) for all ranges a and b.
C20_PredicatesSymmetric ==
    (res.done /\ res.fn \in {"overlaps", "touches"}) => res.ab = res.ba

\* C20 witness: overlaps applied to two different overlapping ranges.
C20_Witness ==
    /\ res.done
    /\ res.fn = "overlaps"
    /\ lhs.start < rhs.start
    /\ rhs.start < lhs.end
    /\ lhs.end < rhs.end
    /\ res.ab

\* C21: interval_union and interval_intersection give the same outcome (None,
\* or Some of the same range) in both argument orders, for all ranges a and b.
\* Violated: (0..0).interval_intersection(0..2) is None while
\* (0..2).interval_intersection(0..0) is Some(0..0).
C21_ArgumentOrder ==
    (res.done /\ res.fn \in {"interval_union", "interval_intersection"})
        => res.ab = res.ba

\* What the code does guarantee for C21: the order is irrelevant when both
\* ranges hold a point.
C21_OnNonDegenerate ==
    (/\ res.done
     /\ res.fn \in {"interval_union", "interval_intersection"}
     /\ ~Degenerate(lhs)
     /\ ~Degenerate(rhs))
        => res.ab = res.ba

\* C22: with the differences and the product computed in T's width,
\* dominates_or_is_dominated_by(a, b) returns true exactly when a dominates b
\* or b dominates a.  Violated: an overflowing difference or product panics or
\* wraps to a value of the wrong sign.
C22_DominatesEitherWay ==
    (res.done /\ res.fn = "dominates_or_is_dominated_by")
        => res.ab = Some(dominates(lhs, rhs) \/ dominates(rhs, lhs))

\* What the code does guarantee for C22: the test is exact whenever neither
\* difference nor the product overflows T.
C22_WithoutOverflow ==
    (/\ res.done
     /\ res.fn = "dominates_or_is_dominated_by"
     /\ ~dominates_product(lhs, rhs).overflow)
        => res.ab = Some(dominates(lhs, rhs) \/ dominates(rhs, lhs))

\* Some stored interval x covers r: x.start <= r.start and r.end <= x.end.
Covered(s, r) ==
    \E i \in 1..Len(s) : s[i].start <= r.start /\ r.end <= s[i].end

\* C23: on a valid set, the union of a non-degenerate range that lies inside
\* one stored interval leaves the stored sequence unchanged, and the early
\* return on index0 > index1 is taken only when such a covering interval
\* exists.
C23_CoveredUnionNoOp ==
    (op = "union" /\ Valid(prev) /\ ~Degenerate(arg))
        => /\ Covered(prev, arg) => intervals = prev
           /\ \A impl \in SearchImpls :
                  union_already_included(prev, arg, impl) => Covered(prev, arg)

\* The early return was taken on a valid set of two intervals.
C23_Witness ==
    /\ op = "union"
    /\ Valid(prev)
    /\ Len(prev) >= 2
    /\ \A impl \in SearchImpls : union_already_included(prev, arg, impl)
    /\ Covered(prev, arg)
    /\ intervals = prev

\* x is entirely subsumed by r: r.start <= x.start and x.end < r.end.
Subsumed(x, r) == r.start <= x.start /\ x.end < r.end

\* C24: whenever union drains [index0, index1) from a valid set, the removed
\* intervals are exactly the stored intervals that the argument entirely
\* subsumes: every removed one is subsumed, and none outside the range is.
C24_DrainedSubsumed ==
    (op = "union" /\ Valid(prev))
        => \A impl \in SearchImpls :
               LET drained == union_drained(prev, arg, impl)
               IN  drained # {}
                       => \A i \in 0..(Len(prev) - 1) :
                              (i \in drained) <=> Subsumed(At(prev, i), arg)

\* A union drained two intervals of a valid set and kept a third one.
C24_Witness ==
    /\ op = "union"
    /\ Valid(prev)
    /\ Len(prev) >= 3
    /\ \A impl \in SearchImpls :
           Cardinality(union_drained(prev, arg, impl)) = 2
    /\ Len(intervals) < Len(prev)

\* C25: in union on a valid set, whether the search reports Ok or Err, index0
\* is the number of stored intervals with start < new.start and index1 the
\* number with end < new.end, and the result of union is the same for every
\* outcome of the searches.
C25_SearchIndices ==
    (op = "union" /\ Valid(prev) /\ prev # <<>> /\ ~Degenerate(arg))
        => \A impl \in SearchImpls :
               /\ union_index0(prev, arg, impl)
                      = Cardinality({i \in 1..Len(prev) : prev[i].start < arg.start})
               /\ union_index1(prev, arg, impl)
                      = Cardinality({i \in 1..Len(prev) : prev[i].end < arg.end})
               /\ intervals = union(prev, arg, impl)

\* A union on a valid set of two intervals whose argument starts at a stored
\* start (exact match) and ends at no stored end (insertion point).
C25_Witness ==
    /\ op = "union"
    /\ Valid(prev)
    /\ Len(prev) >= 2
    /\ ~Degenerate(arg)
    /\ \E i \in 1..Len(prev) : prev[i].start = arg.start
    /\ \A i \in 1..Len(prev) : prev[i].end # arg.end
    /\ intervals # prev

\* The leading and the trailing gap of the negation n of a non-empty s: the
\* leading gap [INFINUM, first.start) is there unless first.start is the
\* infimum, the trailing gap [last.end, SUPREMUM) unless last.end is the
\* supremum.
OuterGaps(s, n) ==
    LET first == s[1]
        last == s[Len(s)]
    IN  /\ ~is_infinum(first.start)
               <=> (n # <<>> /\ n[1] = Range(INFINUM, first.start))
        /\ ~is_supremum(last.end)
               <=> (n # <<>> /\ n[Len(n)] = Range(last.end, SUPREMUM))

\* C26: for every set reachable by union, intersect and retain_intersecting,
\* negation() satisfies the structural invariant (sorted by start, strict
\* gaps, no degenerate interval) and has the leading and the trailing gap as
\* described.  Violated: after union(0..2) and intersect(1..1) the set is
\* [1..1] and its negation is [INFINUM..1, 1..SUPREMUM], two touching
\* intervals.
C26_NegationValid ==
    LET n == negation(intervals)
    IN  /\ Valid(n)
        /\ intervals # <<>> => OuterGaps(intervals, n)

\* What the code does guarantee for C26: the negation of a valid set is valid
\* and has the outer gaps.
C26_OnValidSets ==
    Valid(intervals) =>
        LET n == negation(intervals)
        IN  /\ Valid(n)
            /\ intervals # <<>> => OuterGaps(intervals, n)

\* C27: interval_intersection never returns a degenerate range: for every
\* pair of ranges a and b, Some(r) implies r.start < r.end.  Violated:
\* (0..5).interval_intersection(2..2) is Some(2..2).
C27_NeverDegenerate ==
    (res.done /\ res.fn = "interval_intersection")
        => /\ res.ab # None => ~Degenerate(res.ab[1])
           /\ res.ba # None => ~Degenerate(res.ba[1])

\* What the code does guarantee for C27: the result is not degenerate when
\* neither argument is.
C27_OnNonDegenerate ==
    (/\ res.done
     /\ res.fn = "interval_intersection"
     /\ ~Degenerate(lhs)
     /\ ~Degenerate(rhs))
        => /\ res.ab # None => ~Degenerate(res.ab[1])
           /\ res.ba # None => ~Degenerate(res.ba[1])

\* C28: for all ranges a and b with start < end, a.overlaps(b) is true
\* exactly when a.interval_intersection(b) is Some, and a.touches(b) is true
\* exactly when a.interval_union(b) is Some.
C28_PredicatesAgree ==
    (res.done /\ ~Degenerate(lhs) /\ ~Degenerate(rhs))
        => /\ res.fn = "overlaps"
                  => /\ res.ab <=> interval_intersection(lhs, rhs) # None
                     /\ res.ba <=> interval_intersection(rhs, lhs) # None
           /\ res.fn = "interval_intersection"
                  => /\ res.ab # None <=> overlaps(lhs, rhs)
                     /\ res.ba # None <=> overlaps(rhs, lhs)
           /\ res.fn = "touches"
                  => /\ res.ab <=> interval_union(lhs, rhs) # None
                     /\ res.ba <=> interval_union(rhs, lhs) # None
           /\ res.fn = "interval_union"
                  => /\ res.ab # None <=> touches(lhs, rhs)
                     /\ res.ba # None <=> touches(rhs, lhs)

\* touches was applied to two non-degenerate ranges that meet at an endpoint:
\* they touch, have a union, do not overlap and have no intersection.
C28_Witness ==
    /\ res.done
    /\ res.fn = "touches"
    /\ ~Degenerate(lhs)
    /\ ~Degenerate(rhs)
    /\ lhs.end = rhs.start
    /\ res.ab
    /\ interval_union(lhs, rhs) # None
    /\ ~overlaps(lhs, rhs)
    /\ interval_intersection(lhs, rhs) = None

\* C29: the ordering of the OrdFloat wrappers agrees with the numeric order
\* on finite values: for finite non-NaN x < y, negative ones included,
\* OrdFloat(x) < OrdFloat(y); hence union stores OrdFloat(x)..OrdFloat(y), and
\* negative infinity, the infimum used by negation, is below every finite
\* value.  Violated: OrdF32(-2.0) > OrdF32(-1.0), so union drops
\* OrdF32(-2.0)..OrdF32(-1.0), and OrdF32(NEG_INFINITY) > OrdF32(-1.0).
C29_NumericOrder ==
    /\ (is_finite(floats.x) /\ is_finite(floats.y) /\ lt(floats.x, floats.y))
           => /\ floats.cmp # None => floats.cmp = Some("Less")
              /\ op = "union"
                     => intervals = <<OrdFloatRange(floats.x, floats.y)>>
    /\ (floats.cmp # None /\ is_finite(floats.x))
           => cmp(NEG_INFINITY, floats.x) = "Less"

\* What the code does guarantee for C29: the orders agree when the larger
\* float is not negative, and negative infinity is below every float that is
\* not negative.
C29_UpToNonNegative ==
    /\ (/\ is_finite(floats.x)
        /\ is_finite(floats.y)
        /\ lt(floats.x, floats.y)
        /\ sign(floats.y) = 0)
           => /\ floats.cmp # None => floats.cmp = Some("Less")
              /\ op = "union"
                     => intervals = <<OrdFloatRange(floats.x, floats.y)>>
    /\ (floats.cmp # None /\ is_finite(floats.x) /\ sign(floats.x) = 0)
           => cmp(NEG_INFINITY, floats.x) = "Less"

\* C30: intersect is idempotent: for every reachable set and every range f,
\* intersect(f) twice leaves the same stored sequence as intersect(f) once.
\* Violated: on [0..5], intersect(2..2) stores [2..2] and a second
\* intersect(2..2) empties the set.
C30_IntersectIdempotent ==
    op = "intersect" => intersect(intervals, arg) = intervals

\* What the code does guarantee for C30: intersect is idempotent for a
\* non-degenerate filter.
C30_NonDegenerateFilter ==
    (op = "intersect" /\ ~Degenerate(arg))
        => intersect(intervals, arg) = intervals

====
